---- MODULE Spec2Model ----
(***************************************************************************)
(* Model of src/server.js: one bridged call.  A telephony WebSocket        *)
(* (twilioWs) is paired with one outbound model WebSocket (geminiWs); tool *)
(* calls of the model are forwarded to the Base44 backend by callBase44.   *)
(*                                                                         *)
(* The variables of the connection closure (geminiWs, streamSid,           *)
(* useTypingSound) are modelled as they are in the code.  The two sockets  *)
(* are observed through the logs toGemini / toTwilio of the send() calls   *)
(* made on them.  hist and closeCalls are history variables: they record   *)
(* what the environment has delivered and how often close() was called; no *)
(* action of the program reads them (hist.opened limits what the model     *)
(* side can deliver: frames arrive only on a socket that has opened).      *)
(*                                                                         *)
(* The audio conversions are pure functions of a frame; codec holds one    *)
(* frame and what the conversions make of it, and CodecSpec runs them.     *)
(*                                                                         *)
(* Spec is the call with every kind of input and failure.  RelaySpec is    *)
(* the same handlers with fewer kinds of input and a longer call, for the  *)
(* relay in both directions while a function call is outstanding.          *)
(***************************************************************************)
EXTENDS Integers, Sequences, FiniteSets, TLC

\* ---- bounds of the model -------------------------------------------------
\* Inputs of one call: start, media and stop events of the telephony socket;
\* audio parts, interruptions, turn ends and function calls of the model;
\* answers of the backend to the function calls; under MalformedSpec also
\* the malformed and unexpected messages of both peers.
MaxInputs == 3

\* Inputs of one call under RelaySpec, where the bridge relays both ways
\* while a function call is outstanding.
MaxRelayInputs == 6

\* Bytes of the longest frame the conversions are run on.
MaxFrame == 3

\* ---- values ---------------------------------------------------------------
NoSid == 0
\* A deployment with SARAH_BRIDGE_SECRET set.  The session handlers never read
\* it: it is only the bearer token of callBase44.
BRIDGE_SECRET == "s3cret"
StartSecrets == {"s3cret", "wrong"}
KnownTools == {"check_availability", "book_appointment", "save_lead_details"}
CallNames == {"check_availability", "no_such_tool"}
\* An entry of functionCalls that is null instead of a call.
NullCall == "null"
SettingsOutcomes == {"typing", "plain", "error", "malformed"}

VARIABLES
  BASE44_API_URL,   \* TRUE iff the backend URL is configured
  companyId,        \* TRUE iff the connection URL carries a companyId
  pc,               \* position of the connection handler
  useTypingSound,
  geminiWs,         \* readyState of the model socket, "null" before creation
  twilioWs,         \* readyState of the telephony socket
  streamSid,
  toGemini,         \* geminiWs.send() calls, in order
  toTwilio,         \* twilioWs.send() calls, in order
  tasks,            \* invocations of the toolCall branch, by arrival number
  closeCalls,       \* number of geminiWs.close() calls made by the handlers
  hist,             \* history of the environment's inputs
  codec             \* a frame of mu-law bytes and its conversions

vars == <<BASE44_API_URL, companyId, pc, useTypingSound,
          geminiWs, twilioWs, streamSid, toGemini, toTwilio, tasks,
          closeCalls, hist, codec>>

cfg == <<BASE44_API_URL, companyId>>

session == <<pc, useTypingSound, geminiWs, twilioWs, streamSid, toGemini,
             toTwilio, tasks, closeCalls, hist>>

\* No frame is being converted.
CodecIdle == [op |-> "idle", raw |-> <<>>, out |-> <<>>]

\* What the environment has sent so far, and what it sends at most.
Inputs == hist.inputs

Budget == hist.budget

\* ---- the ws library's socket operations ----------------------------------
\* WebSocket#close(): a no-op on a closing or closed socket.
WsClose(rs) ==
  IF rs \in {"CONNECTING", "OPEN"} THEN "CLOSING" ELSE rs

\* geminiWs?.close()
OptClose(rs) ==
  IF rs = "null" THEN rs ELSE WsClose(rs)

\* One geminiWs.send() call; rs is the readyState it is made in.
GSend(type, ev, body, rs) ==
  [type |-> type, ev |-> ev, body |-> body, rs |-> rs]

\* ---- conversions of the payloads (tokens stand for the audio) ------------
PcmChunk(payload) == <<"pcm16k", payload>>
MulawMedia(data) == <<"mulaw8k", data>>

\* ---- messages sent to the telephony socket -------------------------------
TMedia(sid, payload) == [event |-> "media", streamSid |-> sid, payload |-> payload]
TClear(sid) == [event |-> "clear", streamSid |-> sid, payload |-> <<>>]
TYPING_SOUND_BASE64 == <<"typing">>

\* Guards of the three sends to the telephony socket.
\* Mutation: the audio is sent whenever a stream id is recorded, whatever the
\* state of the telephony socket.
AudioGuardAnyState ==
  streamSid # NoSid

AudioGuard ==
  streamSid # NoSid /\ twilioWs = "OPEN"

\* A clear that waits for the end of a turn: the guard a bridge would have
\* if it tied barge-in to turnComplete.
ClearGuardAfterTurn ==
  streamSid # NoSid /\ twilioWs = "OPEN" /\ hist.turnCompleteSeen

ClearGuard ==
  streamSid # NoSid /\ twilioWs = "OPEN"

TypingGuard ==
  useTypingSound /\ streamSid # NoSid /\ twilioWs = "OPEN"

\* A media branch that stands still while a tool call is outstanding.
CanForwardMediaIdle ==
  geminiWs = "OPEN" /\ \A k \in 1..Len(tasks) : tasks[k].state # "awaiting"

\* Guard of the media branch of the telephony message handler.
\* Mutation: the media branch tests only that the link object exists and is
\* not closing, so a frame is sent while the socket is still connecting.
CanForwardMediaEarly == geminiWs \in {"CONNECTING", "OPEN"}

CanForwardMedia ==
  geminiWs = "OPEN"

\* The telephony handlers exist once the connection handler has passed the
\* settings load; an event emitted earlier finds no listener.
Listening == pc = "registered"

\* ---- history --------------------------------------------------------------
HistInit ==
  [inputs |-> 0,            \* inputs received, of all kinds
   budget |-> MaxInputs,    \* inputs the environment sends at most
   starts |-> 0,            \* start events received
   mediaRecv |-> 0,         \* media events received
   audioRecv |-> 0,         \* audio parts received from the model
   interrupts |-> 0,        \* interrupted events received from the model
   turnCompleteSeen |-> FALSE,
   setupAcked |-> FALSE,    \* setupComplete received
   preStart |-> {},         \* media events that arrived before any start
   preAck |-> <<>>,         \* media events that arrived before setupComplete
   rejected |-> FALSE,      \* the first start carried a wrong secret
   opened |-> FALSE,        \* the model socket completed its handshake
   modelDone |-> FALSE,     \* no further frame of the model socket can arrive
   malformed |-> 0]         \* malformed or unexpected messages received

Init ==
  /\ BASE44_API_URL \in BOOLEAN
  /\ companyId \in BOOLEAN
  /\ pc = "accepted"
  /\ useTypingSound = FALSE
  /\ geminiWs = "null"
  /\ twilioWs = "OPEN"
  /\ streamSid = NoSid
  /\ toGemini = <<>>
  /\ toTwilio = <<>>
  /\ tasks = <<>>
  /\ closeCalls = 0
  /\ hist = HistInit
  /\ codec = CodecIdle

\* ---- wss.on("connection") -------------------------------------------------
\* Runs to the await of the settings load when there is one, and otherwise
\* to the end: the model socket is created and the handlers are registered.
\* new URL(req.url, ...) stands before the try: for a request whose Host
\* header makes no URL it throws, the handler rejects with nothing
\* registered, and the unhandled rejection ends the process.
Connection(validUrl) ==
  /\ pc = "accepted"
  /\ IF ~validUrl
       THEN /\ pc' = "crashed"
            /\ twilioWs' = "CLOSED"
            /\ UNCHANGED geminiWs
       ELSE IF companyId /\ BASE44_API_URL
       THEN /\ pc' = "loading"
            /\ UNCHANGED <<geminiWs, twilioWs>>
       ELSE /\ pc' = "registered"
            /\ geminiWs' = "CONNECTING"
            /\ UNCHANGED twilioWs
  /\ UNCHANGED <<cfg, codec, useTypingSound, streamSid, toGemini, toTwilio,
                 tasks, closeCalls, hist>>

\* The settings load resolves; the handler goes on to its end.  Settings
\* with interim_audio "typing" turn the typing sound on; an error result
\* leaves the defaults; settings of an unexpected shape make the assembly
\* of the knowledge base throw, and the catch closes the telephony socket.
SettingsLoaded(outcome) ==
  /\ pc = "loading"
  /\ IF outcome = "malformed"
       THEN /\ pc' = "aborted"
            /\ twilioWs' = WsClose(twilioWs)
            /\ UNCHANGED <<useTypingSound, geminiWs>>
       ELSE /\ pc' = "registered"
            /\ useTypingSound' = (outcome = "typing")
            /\ geminiWs' = "CONNECTING"
            /\ UNCHANGED twilioWs
  /\ UNCHANGED <<cfg, codec, streamSid, toGemini, toTwilio, tasks, closeCalls, hist>>

\* ---- twilioWs.on("message") -----------------------------------------------
\* The stream id of the n-th start event is n.  The history notes whether
\* the first start event carried a secret other than the configured one.
TwilioStart(secret) ==
  /\ pc # "accepted" /\ twilioWs = "OPEN"
  /\ Inputs < Budget
  /\ streamSid' = IF Listening THEN hist.starts + 1 ELSE streamSid
  /\ LET bad == hist.starts = 0 /\ BRIDGE_SECRET # "" /\ secret # BRIDGE_SECRET
     IN hist' = [hist EXCEPT !.inputs = @ + 1, !.starts = @ + 1,
                             !.rejected = @ \/ bad]
  /\ UNCHANGED <<cfg, codec, pc, useTypingSound, geminiWs, twilioWs, toGemini,
                 toTwilio, tasks, closeCalls>>

TwilioMedia ==
  /\ pc # "accepted" /\ twilioWs = "OPEN"
  /\ Inputs < Budget
  /\ LET n == hist.mediaRecv + 1
     IN /\ toGemini' = IF Listening /\ CanForwardMedia
                         THEN Append(toGemini, GSend("chunk", n, PcmChunk(n), geminiWs))
                         ELSE toGemini
        /\ hist' = [hist EXCEPT !.inputs = @ + 1, !.mediaRecv = n,
                                !.preStart = IF hist.starts = 0 THEN @ \cup {n} ELSE @,
                                !.preAck = IF hist.setupAcked \/ geminiWs \in {"CLOSING", "CLOSED"}
                                             THEN @ ELSE Append(@, n)]
  /\ UNCHANGED <<cfg, codec, pc, useTypingSound, geminiWs, twilioWs, streamSid,
                 toTwilio, tasks, closeCalls>>

TwilioStop ==
  /\ pc # "accepted" /\ twilioWs = "OPEN"
  /\ Inputs < Budget
  /\ geminiWs' = IF Listening THEN OptClose(geminiWs) ELSE geminiWs
  /\ closeCalls' = IF Listening /\ geminiWs # "null" THEN closeCalls + 1 ELSE closeCalls
  /\ hist' = [hist EXCEPT !.inputs = @ + 1]
  /\ UNCHANGED <<cfg, codec, pc, useTypingSound, twilioWs, streamSid, toGemini,
                 toTwilio, tasks>>

\* ---- twilioWs.on("close") -------------------------------------------------
\* The close frame of the telephony peer arrives: ws answers it and the
\* socket is CLOSING until its connection ends; no handler of the bridge
\* runs, and no further message of the peer is delivered.
TwilioCloseFrame ==
  /\ pc # "accepted" /\ twilioWs = "OPEN"
  /\ twilioWs' = "CLOSING"
  /\ UNCHANGED <<cfg, codec, pc, useTypingSound, geminiWs, streamSid, toGemini,
                 toTwilio, tasks, closeCalls, hist>>

\* The 'close' event: the connection has ended, after a close frame or
\* without one.
TwilioClose ==
  /\ pc # "accepted" /\ twilioWs \in {"OPEN", "CLOSING"}
  /\ twilioWs' = "CLOSED"
  /\ geminiWs' = IF Listening THEN OptClose(geminiWs) ELSE geminiWs
  /\ closeCalls' = IF Listening /\ geminiWs # "null" THEN closeCalls + 1 ELSE closeCalls
  /\ UNCHANGED <<cfg, codec, pc, useTypingSound, streamSid, toGemini, toTwilio,
                 tasks, hist>>

\* ---- geminiWs.on("open") --------------------------------------------------
GeminiOpen ==
  /\ geminiWs = "CONNECTING"
  /\ geminiWs' = "OPEN"
  /\ toGemini' = Append(toGemini, GSend("setup", 0, <<>>, "OPEN"))
  /\ hist' = [hist EXCEPT !.opened = TRUE]
  /\ UNCHANGED <<cfg, codec, pc, useTypingSound, twilioWs, streamSid, toTwilio,
                 tasks, closeCalls>>

\* The message handler runs for frames of a socket that has opened: while it
\* is open, and while a close the bridge started has not completed.  close()
\* on a socket still connecting aborts the handshake, and no frame ever
\* arrives; none arrives after the close frame of the peer or an error of
\* the socket.
LinkReceives ==
  hist.opened /\ ~hist.modelDone /\ geminiWs \in {"OPEN", "CLOSING"}

\* ---- geminiWs.on("message"): serverContent --------------------------------
\* The audio parts of modelTurn, converted and sent in the order of the parts.
\* Mutation: the parts of one message are sent last part first.
AudioSendsReversed(first, nParts) ==
  IF AudioGuard
    THEN [i \in 1..nParts |-> TMedia(streamSid, MulawMedia(first + nParts + 1 - i))]
    ELSE <<>>

AudioSends(first, nParts) ==
  IF AudioGuard
    THEN [i \in 1..nParts |-> TMedia(streamSid, MulawMedia(first + i))]
    ELSE <<>>

\* The interrupted branch.
InterruptedSends(interrupted) ==
  IF interrupted /\ ClearGuard THEN <<TClear(streamSid)>> ELSE <<>>

\* setupComplete matches no branch of the handler.
GeminiSetupComplete ==
  /\ LinkReceives
  /\ ~hist.setupAcked
  /\ hist' = [hist EXCEPT !.setupAcked = TRUE]
  /\ UNCHANGED <<cfg, codec, pc, useTypingSound, geminiWs, twilioWs, streamSid,
                 toGemini, toTwilio, tasks, closeCalls>>

\* A serverContent message: nParts audio parts in modelTurn, interrupted or
\* not, turnComplete or not.  No branch reads turnComplete.
Flag(b) == IF b THEN 1 ELSE 0

GeminiContent(nParts, interrupted, turnComplete) ==
  /\ LinkReceives
  /\ nParts > 0 \/ interrupted \/ turnComplete
  /\ Inputs + nParts + Flag(interrupted) + Flag(turnComplete) <= Budget
  /\ toTwilio' = toTwilio \o AudioSends(hist.audioRecv, nParts)
                          \o InterruptedSends(interrupted)
  /\ hist' = [hist EXCEPT !.inputs = @ + nParts + Flag(interrupted) + Flag(turnComplete),
                          !.audioRecv = @ + nParts,
                          !.interrupts = @ + Flag(interrupted),
                          !.turnCompleteSeen = @ \/ turnComplete]
  /\ UNCHANGED <<cfg, codec, pc, useTypingSound, geminiWs, twilioWs, streamSid,
                 toGemini, tasks, closeCalls>>

\* ---- callBase44 -----------------------------------------------------------
AllOutcomes == {"ok", "non2xx", "threw", "unparsable", "unconfigured"}

BackendOutcomes ==
  IF BASE44_API_URL THEN {"ok", "non2xx", "threw", "unparsable"} ELSE {"unconfigured"}

\* The bodies of a 2xx answer, as resp.json() parses them.  The parsed value
\* is returned as it is, whatever it is: an object with the data of the
\* action, an object that itself has an error field, or a value that is no
\* object at all.
BodyKinds == {"answer", "error_body", "null_body"}

\* JSON null.  It is no object and has none of the fields of one; it is held
\* as a value of its own, distinct from every object the backend can send.
JsonNull == [json |-> "null"]

Body(action, kind) ==
  CASE kind = "answer" -> [data |-> action]
    [] kind = "error_body" -> [error |-> "slot taken"]
    [] kind = "null_body" -> JsonNull

\* Mutation: the status of the response is not tested, and the body of an
\* error response is parsed and returned like an answer.
callBase44NoStatusCheck(action, outcome, body) ==
  CASE outcome = "unconfigured" -> [error |-> "Base44 API not configured"]
    [] outcome = "non2xx" -> [data |-> "error body"]
    [] outcome = "threw" -> [error |-> "fetch failed"]
    [] outcome = "unparsable" -> [error |-> "Unexpected token"]
    [] outcome = "ok" -> body

callBase44(action, outcome, body) ==
  CASE outcome = "unconfigured" -> [error |-> "Base44 API not configured"]
    [] outcome = "non2xx" -> [error |-> "Base44 " \o action \o " failed"]
    [] outcome = "threw" -> [error |-> "fetch failed"]
    [] outcome = "unparsable" -> [error |-> "Unexpected token"]
    [] outcome = "ok" -> body

\* ---- geminiWs.on("message"): toolCall -------------------------------------
ToolAction(name) ==
  CASE name = "check_availability" -> "checkAvailability"
    [] name = "book_appointment" -> "bookAppointment"
    [] name = "save_lead_details" -> "saveLead"

\* The loop over functionCalls, run until it awaits callBase44, throws or
\* ends: a call with an unknown name gets its error without any await; on an
\* entry that is null, call.name throws, in the try of the loop and again in
\* its catch, and the handler is left through its outer catch.
RECURSIVE RunCalls(_, _)
RunCalls(calls, results) ==
  IF Len(results) = Len(calls) THEN results
  ELSE LET name == calls[Len(results) + 1]
       IN IF name \in KnownTools \cup {NullCall} THEN results
          ELSE RunCalls(calls, Append(results, [error |-> "Unknown tool: " \o name]))

\* The loop has stopped at `results` because the next entry made it throw.
Thrown(calls, results) ==
  Len(results) < Len(calls) /\ calls[Len(results) + 1] = NullCall

\* toolResponses, one entry per call.
\* Mutation: the entries are built from the calls taken last to first.
ToolResponsesReversed(k, calls, results) ==
  [j \in 1..Len(calls) |->
     [id |-> <<k, j>>, name |-> calls[Len(calls) + 1 - j], result |-> results[j]]]

ToolResponses(k, calls, results) ==
  [j \in 1..Len(calls) |-> [id |-> <<k, j>>, name |-> calls[j], result |-> results[j]]]

DoneTask == [calls |-> <<>>, results |-> <<>>, state |-> "done", gAt |-> 0, tAt |-> 0]

\* An invocation left through the outer catch: it sends no response.
ThrownTask == [DoneTask EXCEPT !.state = "thrown"]

\* The state of invocation k once its loop has run to `results`, and the
\* geminiWs.send() it makes when the loop has ended.
TaskAfter(task, results) ==
  IF Len(results) = Len(task.calls) THEN DoneTask
  ELSE IF Thrown(task.calls, results) THEN ThrownTask
  ELSE [task EXCEPT !.results = results, !.state = "awaiting"]

ResponseSends(k, calls, results) ==
  IF Len(results) = Len(calls)
    THEN <<GSend("tool_response", k, ToolResponses(k, calls, results), geminiWs)>>
    ELSE <<>>

CallLists(maxLen) ==
  UNION {[1..n -> CallNames] : n \in 1..maxLen}

\* The inputs a toolCall message stands for: its calls, and one answer of
\* the backend for each call that is dispatched.
Cost(calls) ==
  Len(calls) + Cardinality({j \in 1..Len(calls) : calls[j] \in KnownTools})

GeminiToolCall(calls) ==
  /\ LinkReceives
  /\ Inputs + Cost(calls) <= Budget
  /\ LET k == Len(tasks) + 1
         typing == IF TypingGuard
                     THEN <<TMedia(streamSid, TYPING_SOUND_BASE64)>> ELSE <<>>
         results == RunCalls(calls, <<>>)
         task == [calls |-> calls, results |-> <<>>, state |-> "awaiting",
                  gAt |-> Len(toGemini), tAt |-> Len(toTwilio) + Len(typing)]
     IN /\ toTwilio' = toTwilio \o typing
        /\ tasks' = Append(tasks, TaskAfter(task, results))
        /\ toGemini' = toGemini \o ResponseSends(k, calls, results)
  /\ hist' = [hist EXCEPT !.inputs = @ + Cost(calls)]
  /\ UNCHANGED <<cfg, codec, pc, useTypingSound, geminiWs, twilioWs, streamSid,
                 closeCalls>>

\* The callBase44 awaited by invocation k settles; the loop goes on.  The
\* body matters for a 2xx answer only: no other path of callBase44 returns
\* it.
BackendResolve(k, outcome, kind) ==
  /\ pc # "crashed"
  /\ k \in 1..Len(tasks)
  /\ tasks[k].state = "awaiting"
  /\ outcome \in BackendOutcomes
  /\ outcome # "ok" => kind = "answer"
  /\ LET task == tasks[k]
         name == task.calls[Len(task.results) + 1]
         result == callBase44(ToolAction(name), outcome, Body(ToolAction(name), kind))
         results == RunCalls(task.calls, Append(task.results, result))
     IN /\ tasks' = [tasks EXCEPT ![k] = TaskAfter(task, results)]
        /\ toGemini' = toGemini \o ResponseSends(k, task.calls, results)
  /\ UNCHANGED <<cfg, codec, pc, useTypingSound, geminiWs, twilioWs, streamSid,
                 toTwilio, closeCalls, hist>>

\* The callBase44 awaited by invocation k never settles.  callBase44 passes
\* no signal and sets no timeout of its own: a backend that has sent its
\* status line and keeps its body unfinished holds the await for ever, and
\* the loop of invocation k never goes on.
BackendNeverSettles(k) ==
  /\ pc # "crashed"
  /\ BASE44_API_URL
  /\ k \in 1..Len(tasks)
  /\ tasks[k].state = "awaiting"
  /\ tasks' = [tasks EXCEPT ![k].state = "hung"]
  /\ UNCHANGED <<cfg, codec, pc, useTypingSound, geminiWs, twilioWs, streamSid,
                 toGemini, toTwilio, closeCalls, hist>>

\* ---- geminiWs.on("close") / geminiWs.on("error") --------------------------
\* Both handlers only log.

\* The close frame of the model peer arrives: ws answers it and the socket is
\* CLOSING until its connection ends, without any close() call of the bridge.
GeminiCloseFrame ==
  /\ geminiWs = "OPEN"
  /\ geminiWs' = "CLOSING"
  /\ hist' = [hist EXCEPT !.modelDone = TRUE]
  /\ UNCHANGED <<cfg, codec, pc, useTypingSound, twilioWs, streamSid, toGemini,
                 toTwilio, tasks, closeCalls>>

\* The 'close' event: the connection has ended, after a close frame of
\* either side or without one.
GeminiClose ==
  /\ geminiWs \in {"OPEN", "CLOSING"}
  /\ geminiWs' = "CLOSED"
  /\ hist' = [hist EXCEPT !.modelDone = TRUE]
  /\ UNCHANGED <<cfg, codec, pc, useTypingSound, twilioWs, streamSid, toGemini,
                 toTwilio, tasks, closeCalls>>

\* The 'error' event.  A failed handshake leaves the socket CLOSED; an error
\* on the open socket (an invalid frame) is emitted with the socket CLOSING,
\* and the 'close' event follows when the connection ends.
GeminiError ==
  /\ geminiWs \in {"CONNECTING", "OPEN"}
  /\ geminiWs' = IF geminiWs = "CONNECTING" THEN "CLOSED" ELSE "CLOSING"
  /\ hist' = [hist EXCEPT !.modelDone = TRUE]
  /\ UNCHANGED <<cfg, codec, pc, useTypingSound, twilioWs, streamSid, toGemini,
                 toTwilio, tasks, closeCalls>>

\* ---- twilioWs 'error' -----------------------------------------------------
\* No listener is registered for the 'error' event of the telephony socket:
\* when it is emitted (an invalid frame, a failure of the connection) the
\* uncaught exception ends the process, with both sockets and every pending
\* request of the call.
TwilioError ==
  /\ pc \notin {"accepted", "crashed"}
  /\ twilioWs \in {"OPEN", "CLOSING"}
  /\ pc' = "crashed"
  /\ twilioWs' = "CLOSED"
  /\ geminiWs' = IF geminiWs = "null" THEN "null" ELSE "CLOSED"
  /\ hist' = [hist EXCEPT !.modelDone = @ \/ geminiWs # "null"]
  /\ UNCHANGED <<cfg, codec, useTypingSound, streamSid, toGemini, toTwilio,
                 tasks, closeCalls>>

\* ---- the system -----------------------------------------------------------
Next ==
  \/ \E validUrl \in BOOLEAN : Connection(validUrl)
  \/ \E o \in SettingsOutcomes : SettingsLoaded(o)
  \/ \E secret \in StartSecrets : TwilioStart(secret)
  \/ TwilioMedia
  \/ TwilioStop
  \/ TwilioCloseFrame
  \/ TwilioClose
  \/ TwilioError
  \/ GeminiOpen
  \/ GeminiSetupComplete
  \/ \E n \in 0..MaxInputs, i \in BOOLEAN, t \in BOOLEAN : GeminiContent(n, i, t)
  \/ \E calls \in CallLists(MaxInputs) : GeminiToolCall(calls)
  \/ \E k \in 1..MaxInputs, o \in AllOutcomes, b \in BodyKinds : BackendResolve(k, o, b)
  \/ \E k \in 1..MaxInputs : BackendNeverSettles(k)
  \/ GeminiCloseFrame
  \/ GeminiClose
  \/ GeminiError

Spec == Init /\ [][Next]_vars

\* ---- the relay while a function call is outstanding ----------------------
\* A call whose backend is configured and whose connection URL carries no
\* companyId, so that the handlers are registered without a settings load.
\* The peers send well-formed messages of fewer kinds than under Spec, and
\* more of them: a start event, a function call that is dispatched, and
\* several frames and audio parts while the backend has not answered.
RelayInit ==
  /\ BASE44_API_URL = TRUE
  /\ companyId = FALSE
  /\ pc = "accepted"
  /\ useTypingSound = FALSE
  /\ geminiWs = "null"
  /\ twilioWs = "OPEN"
  /\ streamSid = NoSid
  /\ toGemini = <<>>
  /\ toTwilio = <<>>
  /\ tasks = <<>>
  /\ closeCalls = 0
  /\ hist = [HistInit EXCEPT !.budget = MaxRelayInputs]
  /\ codec = CodecIdle

RelayNext ==
  \/ Connection(TRUE)
  \/ TwilioStart(BRIDGE_SECRET)
  \/ TwilioMedia
  \/ TwilioStop
  \/ TwilioCloseFrame
  \/ TwilioClose
  \/ GeminiOpen
  \/ GeminiSetupComplete
  \/ \E n \in 0..MaxRelayInputs, i \in BOOLEAN : GeminiContent(n, i, FALSE)
  \/ GeminiToolCall(<<"check_availability">>)
  \/ \E k \in 1..MaxRelayInputs, o \in {"ok", "threw"} : BackendResolve(k, o, "answer")
  \/ GeminiCloseFrame
  \/ GeminiClose
  \/ GeminiError

RelaySpec == RelayInit /\ [][RelayNext]_vars

\* ---- observations of the logs ---------------------------------------------
Chunks == {i \in 1..Len(toGemini) : toGemini[i].type = "chunk"}

Count(log, event) == Cardinality({i \in 1..Len(log) : log[i].event = event})

\* The media messages that carry audio of the model.
Audio(log) ==
  {i \in 1..Len(log) : log[i].event = "media" /\ log[i].payload[1] = "mulaw8k"}

Responses(k) ==
  Cardinality({i \in 1..Len(toGemini) :
                 toGemini[i].type = "tool_response" /\ toGemini[i].ev = k})

Awaiting == {k \in 1..Len(tasks) : tasks[k].state = "awaiting"}

\* ---- C1 --------------------------------------------------------------------
\* C1: once the first start event has carried a secret other than the
\* configured one, no telephony audio that arrives afterwards is forwarded to
\* the model and no audio of the model is sent to the telephony socket.
C1_AuthGate ==
  hist.rejected =>
    /\ \A i \in Chunks : toGemini[i].ev \in hist.preStart
    /\ Audio(toTwilio) = {}

\* ---- C2 --------------------------------------------------------------------
\* C2: no Model Link is connecting or open once the telephony socket of its
\* session is closed, whenever the closure occurs.
C2_LinkTornDown ==
  twilioWs = "CLOSED" => geminiWs \in {"null", "CLOSING", "CLOSED"}

\* ---- C3 --------------------------------------------------------------------
\* C3: the cleanup of the Model Link runs at most once in a session, whatever
\* triggers occur.
C3_CleanupOnce ==
  closeCalls <= 1

\* ---- C4 --------------------------------------------------------------------
\* C4: when the model socket errors or closes before the setup
\* acknowledgement, without the program having closed it, the telephony
\* socket is closed.
C4_ModelLossEndsSession ==
  (geminiWs = "CLOSED" /\ closeCalls = 0 /\ ~hist.setupAcked) => twilioWs # "OPEN"

\* ---- C5 --------------------------------------------------------------------
\* C5: no realtime-input media chunk is sent to the model before
\* setupComplete has been received.
C5_NoChunkBeforeReady ==
  ~hist.setupAcked => Chunks = {}

\* ---- C6 --------------------------------------------------------------------
\* C6: once setupComplete has been received on the open link, the frames
\* that arrived before it have been sent to the model; the newest of them is
\* kept by a queue of any capacity.
C6_HeldFramesFlushed ==
  (hist.setupAcked /\ geminiWs = "OPEN" /\ hist.preAck # <<>>) =>
    \E i \in Chunks : toGemini[i].ev = hist.preAck[Len(hist.preAck)]

\* ---- C7 --------------------------------------------------------------------
\* C7 as stated: every interrupted event received from the model adds one
\* clear message to the telephony side.
C7_EveryInterruptedClears ==
  [][hist'.interrupts > hist.interrupts =>
       Count(toTwilio', "clear") = Count(toTwilio, "clear") + 1]_vars

\* C7 as amended: every interrupted event received while a stream id is
\* recorded and the telephony socket is open sends one clear message with that
\* stream id as the last message of its handler, whether or not a turnComplete
\* was received before; with no stream id recorded or the telephony socket not
\* open, no clear is sent.
C7_InterruptedClears ==
  [][/\ (hist'.interrupts > hist.interrupts /\ streamSid # NoSid /\ twilioWs = "OPEN") =>
          /\ Count(toTwilio', "clear") = Count(toTwilio, "clear") + 1
          /\ toTwilio'[Len(toTwilio')] = TClear(streamSid)
     /\ (streamSid = NoSid \/ twilioWs # "OPEN") =>
          Count(toTwilio', "clear") = Count(toTwilio, "clear")]_vars

\* An interruption has been answered by a clear before any turnComplete.
C7_Witness ==
  /\ hist.interrupts > 0
  /\ ~hist.turnCompleteSeen
  /\ Count(toTwilio, "clear") > 0

\* ---- C8 --------------------------------------------------------------------
\* The tool call of invocation k has no response and none can follow: the
\* backend request it awaits never settles, or the process has ended.
LeftWaiting(k) ==
  /\ Responses(k) = 0
  /\ \/ tasks[k].state = "hung"
     \/ tasks[k].state = "awaiting" /\ pc = "crashed"

\* C8: every toolCall message received is answered by exactly one
\* tool-response send, whatever becomes of its backend calls: never more
\* than one, and the model is never left waiting without end.
C8_NeverLeftWaiting ==
  /\ \A k \in 1..MaxInputs : Responses(k) <= 1
  /\ \A k \in 1..Len(tasks) : ~LeftWaiting(k)

\* ---- C9 --------------------------------------------------------------------
\* C9: while a tool call is outstanding at the backend, a media event
\* received with the model socket open is forwarded as one chunk, audio parts
\* received are sent to the open telephony socket, and an interruption is
\* answered by a clear.
C9_RelayWhileToolPending ==
  [][Awaiting # {} =>
       /\ (hist'.mediaRecv > hist.mediaRecv /\ Listening /\ geminiWs = "OPEN") =>
            toGemini' = Append(toGemini, GSend("chunk", hist'.mediaRecv,
                                               PcmChunk(hist'.mediaRecv), "OPEN"))
       /\ (streamSid # NoSid /\ twilioWs = "OPEN") =>
            /\ Cardinality(Audio(toTwilio')) - Cardinality(Audio(toTwilio))
                 = hist'.audioRecv - hist.audioRecv
            /\ Count(toTwilio', "clear") - Count(toTwilio, "clear")
                 = hist'.interrupts - hist.interrupts]_vars

\* While one and the same toolCall was outstanding, a frame of the caller has
\* been forwarded to the model, and an audio part and a clear have been sent
\* to the telephony socket.
C9_Witness ==
  \E k \in Awaiting :
    /\ \E i \in Chunks : i > tasks[k].gAt
    /\ \E i \in Audio(toTwilio) : i > tasks[k].tAt
    /\ \E i \in 1..Len(toTwilio) : i > tasks[k].tAt /\ toTwilio[i].event = "clear"

\* ---- C10 -------------------------------------------------------------------
\* C10: a media event that arrived before any start event is never forwarded
\* to the model.
C10_MediaBeforeStartIgnored ==
  \A i \in Chunks : toGemini[i].ev \notin hist.preStart

\* ---- C11 ------------------------------------------------------------------
\* C11: no Model Link exists before a start event has been received; a
\* session that never received a start never has one.
C11_NoLinkBeforeStart ==
  hist.starts = 0 => geminiWs = "null"

Setups == {i \in 1..Len(toGemini) : toGemini[i].type = "setup"}

\* ---- C12 ------------------------------------------------------------------
\* C12: a Model Link carries exactly one Setup message, sent when the socket
\* opens, and it is the first message on the link: no chunk and no tool
\* response precedes it.
C12_SetupFirstAndOnce ==
  /\ Cardinality(Setups) <= 1
  /\ geminiWs = "OPEN" => Cardinality(Setups) = 1
  /\ geminiWs \in {"null", "CONNECTING"} => toGemini = <<>>
  /\ toGemini # <<>> => toGemini[1].type = "setup"

\* The setup message is followed on the link by a chunk and by a tool response.
C12_Witness ==
  /\ Setups = {1}
  /\ \E i \in Chunks : i > 1
  /\ \E i \in 2..Len(toGemini) : toGemini[i].type = "tool_response"

\* The arrival numbers of the chunks on the Model Link, in the order sent.
ChunkOrder == [i \in 1..Len(SelectSeq(toGemini, LAMBDA m : m.type = "chunk")) |->
                 SelectSeq(toGemini, LAMBDA m : m.type = "chunk")[i].ev]

IsAudio(m) == m.event = "media" /\ m.payload[1] = "mulaw8k"

\* The arrival numbers of the model audio parts sent to telephony, in the
\* order sent.
AudioOrder == [i \in 1..Len(SelectSeq(toTwilio, IsAudio)) |->
                 SelectSeq(toTwilio, IsAudio)[i].payload[2]]

Increasing(seq) == \A i, j \in 1..Len(seq) : i < j => seq[i] < seq[j]

\* ---- C13 ------------------------------------------------------------------
\* C13: audio keeps its arrival order in both directions: a forwarded media
\* event becomes exactly one chunk and the chunks are in arrival order; the
\* model's audio parts reach telephony in the order received, across
\* messages and across the parts of one message, tool calls outstanding or
\* not.
C13_OrderPreserved ==
  /\ Increasing(ChunkOrder)
  /\ \A i \in Chunks : toGemini[i].body = PcmChunk(toGemini[i].ev)
  /\ Increasing(AudioOrder)
  /\ \A i \in 1..Len(AudioOrder) : AudioOrder[i] \in 1..hist.audioRecv

\* While one and the same toolCall was outstanding, two audio parts of the
\* model have been sent to telephony and a frame of the caller to the model.
C13_Witness ==
  \E k \in Awaiting :
    /\ Cardinality({i \in Audio(toTwilio) : i > tasks[k].tAt}) >= 2
    /\ \E i \in Chunks : i > tasks[k].gAt

\* While a toolCall was outstanding, two frames of the caller have been sent
\* to the model.
C13_WitnessChunks ==
  \E k \in Awaiting : Cardinality({i \in Chunks : i > tasks[k].gAt}) >= 2

\* The result that invocation k of the tool call branch holds for its j-th
\* call: in the results of its loop while the loop runs, in the tool
\* response once it is sent.
ResultOf(k, j) ==
  IF tasks[k].state = "awaiting"
    THEN tasks[k].results[j]
    ELSE toGemini[CHOOSE i \in 1..Len(toGemini) :
                    toGemini[i].type = "tool_response" /\ toGemini[i].ev = k].body[j].result

\* ---- C14 ------------------------------------------------------------------
\* C14: callBase44 resolves with a value for every outcome of the request
\* (URL not configured, network failure, non-2xx status, unparsable body,
\* answer), and in every failure case the value is a record {error: message};
\* for a 2xx answer the value is the parsed body, whatever it is.
C14_BackendNeverRaises ==
  [][\A k \in 1..Len(tasks), o \in AllOutcomes, b \in BodyKinds :
       BackendResolve(k, o, b) =>
         \A j \in {Len(tasks[k].results) + 1} :
           LET r == ResultOf(k, j)'
               action == ToolAction(tasks[k].calls[j])
           IN /\ o # "ok" => DOMAIN r = {"error"}
              /\ o = "ok" => r = Body(action, b)
              /\ ~BASE44_API_URL => r = [error |-> "Base44 API not configured"]]_vars

\* A tool response carries the {error} value of a failed backend request.
C14_Witness ==
  \E i \in 1..Len(toGemini) :
    /\ toGemini[i].type = "tool_response"
    /\ \E j \in 1..Len(toGemini[i].body) :
         /\ toGemini[i].body[j].name \in KnownTools
         /\ toGemini[i].body[j].result \in
              {[error |-> "Base44 checkAvailability failed"], [error |-> "fetch failed"],
               [error |-> "Unexpected token"]}

\* The tool response of invocation k, as sent on the Model Link.
ResponseOf(k) ==
  toGemini[CHOOSE i \in 1..Len(toGemini) :
             toGemini[i].type = "tool_response" /\ toGemini[i].ev = k]

\* Invocation k, handling the calls `calls`, has sent its response exactly
\* when its loop is over, and the response lists the calls one to one, in
\* their order, each entry with the id and the name of its call.
ResponseMatches(k, calls) ==
  /\ Responses(k) = Flag(tasks[k].state = "done")
  /\ tasks[k].state = "done" =>
       /\ Len(ResponseOf(k).body) = Len(calls)
       /\ \A j \in 1..Len(calls) :
            LET entry == ResponseOf(k).body[j]
            IN /\ entry.id = <<k, j>>
               /\ entry.name = calls[j]
               /\ calls[j] \notin KnownTools =>
                    entry.result = [error |-> "Unknown tool: " \o calls[j]]
  /\ tasks[k].state = "awaiting" =>
       tasks[k].calls[Len(tasks[k].results) + 1] \in KnownTools

\* ---- C18 ------------------------------------------------------------------
\* C18: for a tool call event with calls c1..cn the tool response is sent
\* only after all n calls have resolved; it has exactly n entries, entry j
\* carrying the id and the name of cj and the result of cj, in the order of
\* the calls; a call with an unknown name gets {error: message} without any
\* backend request.
C18_ResponseListsCallsInOrder ==
  [][/\ Len(tasks') > Len(tasks) =>
          \A calls \in CallLists(MaxInputs) :
            GeminiToolCall(calls) =>
              \A k \in {Len(tasks) + 1} : ResponseMatches(k, calls)'
     /\ \A k \in 1..Len(tasks), o \in AllOutcomes, b \in BodyKinds :
          BackendResolve(k, o, b) =>
            \A calls \in {tasks[k].calls}, j \in {Len(tasks[k].results) + 1} :
              /\ ResponseMatches(k, calls)'
              /\ ResultOf(k, j)' =
                   callBase44(ToolAction(calls[j]), o, Body(ToolAction(calls[j]), b))
              /\ \A i \in 1..(j - 1) : ResultOf(k, i)' = tasks[k].results[i]]_vars

\* A response with two entries has been sent: the first for a call the
\* backend answered, the second for a call with an unknown name.
C18_Witness ==
  \E k \in 1..Len(tasks) :
    /\ Responses(k) = 1
    /\ Len(ResponseOf(k).body) = 2
    /\ ResponseOf(k).body[1].name \in KnownTools
    /\ ResponseOf(k).body[2].result = [error |-> "Unknown tool: no_such_tool"]

\* ---- C19 ------------------------------------------------------------------
\* C19: a telephony event sent at any time after the connection is accepted
\* is handled: once the handler has completed its setup, the stream id of
\* the most recent start event is recorded, whatever the interleaving of the
\* start event with the settings load.
C19_StartAlwaysRecorded ==
  (pc = "registered" /\ hist.starts > 0) => streamSid = hist.starts

\* ---- C20 ------------------------------------------------------------------
\* C20: a tool response is sent only while the Model Link is open: no send
\* is attempted on a link that is closing or closed.
C20_ResponseOnlyWhileOpen ==
  \A i \in 1..Len(toGemini) :
    toGemini[i].type = "tool_response" => toGemini[i].rs = "OPEN"

\* ---- malformed and unexpected messages -----------------------------------
\* Messages of the telephony socket that are not a start, media or stop event
\* of the protocol: a text that is not JSON, a JSON value with another event
\* name, a start event without its start object, a start event whose start
\* object has no streamSid, a media event without its media object.
TwilioMalformedKinds ==
  {"unparsable", "unknown_event", "start_no_start", "start_no_sid", "media_no_media"}

\* JSON.parse, msg.start.streamSid and msg.media.payload throw into the catch
\* of the handler; an unknown event name matches no branch; a start object
\* without streamSid assigns undefined to streamSid, which the guards treat
\* like null.
TwilioMalformed(kind) ==
  /\ pc # "accepted" /\ twilioWs = "OPEN"
  /\ Inputs < Budget
  /\ streamSid' = IF Listening /\ kind = "start_no_sid" THEN NoSid ELSE streamSid
  /\ hist' = [hist EXCEPT !.inputs = @ + 1, !.malformed = @ + 1]
  /\ UNCHANGED <<cfg, codec, pc, useTypingSound, geminiWs, twilioWs, toGemini,
                 toTwilio, tasks, closeCalls>>

\* Messages of the model socket: a text that is not JSON, a JSON value with
\* none of the fields the handler reads, a modelTurn whose last part has
\* inlineData without mimeType, a toolCall without functionCalls.
GeminiMalformedKinds ==
  {"unparsable", "unknown", "bad_part", "no_function_calls", "null_call"}

\* The functionCalls of a toolCall whose last entry is null, after nGood
\* calls of a known tool.
NullCallList(nGood) == [j \in 1..nGood |-> "check_availability"] \o <<NullCall>>

\* The inputs a malformed message stands for: the message, the audio parts
\* before a bad part, the calls before a null entry and their answers.
MalformedCost(kind, nGood) ==
  1 + (IF kind = "null_call" THEN 2 * nGood ELSE nGood)

\* The loop over the parts sends the audio parts that precede the part it
\* throws on; the tool call branch sends the typing sound before its loop
\* throws on the missing functionCalls, or runs its loop up to the entry
\* that is null: the calls before it are dispatched, and no response is sent.
GeminiMalformed(kind, nGood) ==
  /\ LinkReceives
  /\ nGood > 0 => kind \in {"bad_part", "null_call"}
  /\ Inputs + MalformedCost(kind, nGood) <= Budget
  /\ toTwilio' = CASE kind = "bad_part" -> toTwilio \o AudioSends(hist.audioRecv, nGood)
                   [] kind \in {"no_function_calls", "null_call"} /\ TypingGuard ->
                        Append(toTwilio, TMedia(streamSid, TYPING_SOUND_BASE64))
                   [] OTHER -> toTwilio
  /\ tasks' = IF kind = "null_call" /\ nGood > 0
                THEN LET calls == NullCallList(nGood)
                         task == [calls |-> calls, results |-> <<>>, state |-> "awaiting",
                                  gAt |-> Len(toGemini), tAt |-> Len(toTwilio')]
                     IN Append(tasks, TaskAfter(task, RunCalls(calls, <<>>)))
                ELSE tasks
  /\ hist' = [hist EXCEPT !.inputs = @ + MalformedCost(kind, nGood),
                          !.malformed = @ + 1,
                          !.audioRecv = @ + (IF kind = "bad_part" THEN nGood ELSE 0)]
  /\ UNCHANGED <<cfg, codec, pc, useTypingSound, geminiWs, twilioWs, streamSid,
                 toGemini, closeCalls>>

\* The call with peers that also send malformed and unexpected messages.
MalformedNext ==
  \/ Next
  \/ \E kind \in TwilioMalformedKinds : TwilioMalformed(kind)
  \/ \E kind \in GeminiMalformedKinds, nGood \in 0..1 : GeminiMalformed(kind, nGood)

MalformedSpec == Init /\ [][MalformedNext]_vars

\* ---- C15 ------------------------------------------------------------------
\* C15: a malformed or unexpected message on either socket is ignored as a
\* whole: it causes no send on either socket and changes nothing of the
\* session.
C15_MalformedIgnored ==
  [][hist'.malformed > hist.malformed =>
       UNCHANGED <<pc, useTypingSound, geminiWs, twilioWs, streamSid,
                   toGemini, toTwilio, tasks>>]_vars

\* ---- the audio conversions -------------------------------------------------
BIAS == 132
CLIP == 32635

\* EXP_LUT[k] of the code is EXP_LUT[k + 1] here.
EXP_LUT ==
  <<0, 0, 1, 1, 2, 2, 2, 2, 3, 3, 3, 3, 3, 3, 3, 3, 4, 4, 4, 4, 4, 4, 4, 4,
    4, 4, 4, 4, 4, 4, 4, 4, 5, 5, 5, 5, 5, 5, 5, 5, 5, 5, 5, 5, 5, 5, 5, 5,
    5, 5, 5, 5, 5, 5, 5, 5, 5, 5, 5, 5, 5, 5, 5, 5, 6, 6, 6, 6, 6, 6, 6, 6,
    6, 6, 6, 6, 6, 6, 6, 6, 6, 6, 6, 6, 6, 6, 6, 6, 6, 6, 6, 6, 6, 6, 6, 6,
    6, 6, 6, 6, 6, 6, 6, 6, 6, 6, 6, 6, 6, 6, 6, 6, 6, 6, 6, 6, 6, 6, 6, 6,
    6, 6, 6, 6, 6, 6, 6, 6, 7, 7, 7, 7, 7, 7, 7, 7, 7, 7, 7, 7, 7, 7, 7, 7,
    7, 7, 7, 7, 7, 7, 7, 7, 7, 7, 7, 7, 7, 7, 7, 7, 7, 7, 7, 7, 7, 7, 7, 7,
    7, 7, 7, 7, 7, 7, 7, 7, 7, 7, 7, 7, 7, 7, 7, 7, 7, 7, 7, 7, 7, 7, 7, 7,
    7, 7, 7, 7, 7, 7, 7, 7, 7, 7, 7, 7, 7, 7, 7, 7, 7, 7, 7, 7, 7, 7, 7, 7,
    7, 7, 7, 7, 7, 7, 7, 7, 7, 7, 7, 7, 7, 7, 7, 7, 7, 7, 7, 7, 7, 7, 7, 7,
    7, 7, 7, 7, 7, 7, 7, 7, 7, 7, 7, 7, 7, 7, 7, 7>>

\* A store into an Int16Array: the value wraps to 16 bits, and a store at an
\* index outside the array is ignored.
ToInt16(x) == ((x + 32768) % 65536) - 32768

Store(array, index, x) ==
  IF index \in DOMAIN array THEN [array EXCEPT ![index] = ToInt16(x)] ELSE array

\* Mutation: the bias is not added before the segment is looked up.
mulawEncodeNoBias(sample) ==
  LET sign == (((sample \div 256) % 256) \div 128) * 128
      magnitude == IF sign # 0 THEN -sample ELSE sample
      clipped == IF magnitude > CLIP THEN CLIP ELSE magnitude
      exponent == EXP_LUT[((clipped \div 128) % 256) + 1]
      mantissa == (clipped \div (2 ^ (exponent + 3))) % 16
  IN 255 - ((sign + exponent * 16 + mantissa) % 256)

\* sign = (sample >> 8) & 0x80; the shifts are floor divisions, the masks are
\* remainders; sign, exponent << 4 and mantissa have no bit in common, so
\* their bitwise or is their sum.
mulawEncode(sample) ==
  LET sign == (((sample \div 256) % 256) \div 128) * 128
      magnitude == IF sign # 0 THEN -sample ELSE sample
      clipped == IF magnitude > CLIP THEN CLIP ELSE magnitude
      biased == clipped + BIAS
      exponent == EXP_LUT[((biased \div 128) % 256) + 1]
      mantissa == (biased \div (2 ^ (exponent + 3))) % 16
  IN 255 - ((sign + exponent * 16 + mantissa) % 256)

\* buildDecodeTable
MULAW_DECODE_TABLE ==
  [i \in 0..255 |->
     LET val == 255 - i
         sign == (val \div 128) * 128
         exponent == (val \div 16) % 8
         mantissa == val % 16
         magnitude == (mantissa * 8 + BIAS) * (2 ^ exponent) - BIAS
     IN ToInt16(IF sign # 0 THEN -magnitude ELSE magnitude)]

\* Mutation: the sample between two samples repeats the first of them.
MidpointHold(a, b) == a

\* (a + b) >> 1
Midpoint(a, b) == (a + b) \div 2

\* The interpolation loop of twilioToGemini, from index i on.
RECURSIVE Interpolate(_, _, _, _)
Interpolate(pcm8k, pcm16, nSrc, i) ==
  IF i < nSrc - 1
    THEN Interpolate(pcm8k,
                     Store(Store(pcm16, i * 2, pcm8k[i]),
                           i * 2 + 1, Midpoint(pcm8k[i], pcm8k[i + 1])),
                     nSrc, i + 1)
    ELSE pcm16

\* twilioToGemini on the bytes of the payload: raw[i] of the code is
\* raw[i + 1] here, and the result is the sequence of the samples of pcm16.
twilioToGemini(raw) ==
  LET nSrc == Len(raw)
      pcm8k == [i \in 0..(nSrc - 1) |-> MULAW_DECODE_TABLE[raw[i + 1]]]
      nDst == nSrc * 2
      zeros == [j \in 0..(nDst - 1) |-> 0]
      looped == Interpolate(pcm8k, zeros, nSrc, 0)
      tail == IF nSrc = 0 THEN looped
              ELSE Store(Store(looped, nDst - 2, pcm8k[nSrc - 1]),
                         nDst - 1, pcm8k[nSrc - 1])
  IN [j \in 1..nDst |-> tail[j - 1]]

\* The frames the conversions are run on: every single byte, and the frames
\* of up to MaxFrame bytes over a few bytes of both signs.
FrameBytes == {0, 85, 127, 128, 213, 255}
Frames ==
  {<<b>> : b \in 0..255} \cup UNION {[1..n -> FrameBytes] : n \in 0..MaxFrame}

CodecInit ==
  /\ BASE44_API_URL = FALSE
  /\ companyId = FALSE
  /\ pc = "accepted"
  /\ useTypingSound = FALSE
  /\ geminiWs = "null"
  /\ twilioWs = "OPEN"
  /\ streamSid = NoSid
  /\ toGemini = <<>>
  /\ toTwilio = <<>>
  /\ tasks = <<>>
  /\ closeCalls = 0
  /\ hist = HistInit
  /\ codec \in {[op |-> "frame", raw |-> f, out |-> <<>>] : f \in Frames}

\* A byte is decoded, the sample is encoded again, and the byte of the
\* encoder is decoded.
Recode ==
  /\ codec.op = "frame"
  /\ Len(codec.raw) = 1
  /\ LET sample == MULAW_DECODE_TABLE[codec.raw[1]]
         byte == mulawEncode(sample)
     IN codec' = [codec EXCEPT !.op = "recoded",
                               !.out = <<sample, byte, MULAW_DECODE_TABLE[byte]>>]
  /\ UNCHANGED <<cfg, session>>

\* A frame of the caller is decoded and upsampled.
Upsample ==
  /\ codec.op = "frame"
  /\ codec' = [codec EXCEPT !.op = "upsampled", !.out = twilioToGemini(codec.raw)]
  /\ UNCHANGED <<cfg, session>>

CodecNext == Recode \/ Upsample

CodecSpec == CodecInit /\ [][CodecNext]_vars

\* ---- C16 ------------------------------------------------------------------
\* C16: for every byte b, decoding b, encoding the sample and decoding again
\* gives the sample of b; the encoder gives b back, except where another
\* byte has the same sample as b.
C16_RoundTrip ==
  codec.op = "recoded" =>
    LET b == codec.raw[1]
        sample == codec.out[1]
        byte == codec.out[2]
    IN /\ sample = MULAW_DECODE_TABLE[b]
       /\ byte \in 0..255
       /\ codec.out[3] = sample
       /\ byte # b => \E c \in (0..255) \ {b} : MULAW_DECODE_TABLE[c] = sample

\* A byte the encoder does not give back has been recoded: it shares its
\* sample with the byte the encoder gives.
C16_Witness ==
  /\ codec.op = "recoded"
  /\ codec.out[2] # codec.raw[1]
  /\ codec.out[3] = codec.out[1]

\* A byte of a negative sample has been recoded to itself.
C16_WitnessSame ==
  /\ codec.op = "recoded"
  /\ codec.out[1] < 0
  /\ codec.out[2] = codec.raw[1]

\* ---- C17 ------------------------------------------------------------------
\* C17: upsampling the n >= 1 samples s of a frame gives 2n samples: s[i] at
\* the even places, the average of s[i] and s[i+1] between them, and s[n]
\* again at the end; a frame of one sample x gives x, x.
C17_Upsampled ==
  (codec.op = "upsampled" /\ Len(codec.raw) >= 1) =>
    LET n == Len(codec.raw)
        s == [i \in 1..n |-> MULAW_DECODE_TABLE[codec.raw[i]]]
        out == codec.out
    IN /\ Len(out) = 2 * n
       /\ \A i \in 1..n : out[2 * i - 1] = s[i]
       /\ \A i \in 1..(n - 1) :
            /\ 2 * out[2 * i] \in {s[i] + s[i + 1], s[i] + s[i + 1] - 1}
            /\ out[2 * i] \in -32768..32767
       /\ out[2 * n] = s[n]

\* A frame of three samples has been upsampled, and an interpolated sample
\* lies strictly between its neighbours.
C17_Witness ==
  /\ codec.op = "upsampled"
  /\ Len(codec.raw) = 3
  /\ codec.out[1] < codec.out[2] /\ codec.out[2] < codec.out[3]

\* A frame of one sample has been upsampled to two copies of it.
C17_WitnessSingle ==
  /\ codec.op = "upsampled"
  /\ Len(codec.raw) = 1
  /\ codec.out = <<codec.out[1], codec.out[1]>>

\* ---- C21 -------------------------------------------------------------------
\* C21: every message sent to the telephony socket (audio, clear, typing
\* sound) is sent after a start event has been received, while the telephony
\* socket is open, and carries the stream id of the most recent start event.
C21_SendsCarryCurrentSid ==
  [][toTwilio' # toTwilio =>
       /\ Len(toTwilio') > Len(toTwilio)
       /\ SubSeq(toTwilio', 1, Len(toTwilio)) = toTwilio
       /\ hist.starts > 0
       /\ twilioWs = "OPEN" /\ twilioWs' = "OPEN"
       /\ \A i \in (Len(toTwilio) + 1)..Len(toTwilio') :
            /\ toTwilio'[i].event \in {"media", "clear"}
            /\ toTwilio'[i].streamSid = hist.starts]_vars

\* After two start events, a message has been sent with the stream id of
\* the second.
C21_Witness ==
  /\ hist.starts = 2
  /\ \E i \in 1..Len(toTwilio) : toTwilio[i].streamSid = 2

====
